---------------------------- MODULE Spec2Model ----------------------------
(***************************************************************************)
(* Model of the risk-scoring pipeline of src/risk_scoring.py:              *)
(*   main: load structured_swaps.json -> calculate_basic_metrics ->        *)
(*         compute_risk_score -> save_risk_assessment.                     *)
(*                                                                         *)
(* Number representation.  The program computes in float64; the model      *)
(* computes in exact fixed point:                                          *)
(*   - an eth_amount read from the input file is a number with one         *)
(*     decimal digit, held as an integer count of tenths of an ETH;        *)
(*   - every ETH-valued metric (total, mean, std, volume per minute) is    *)
(*     held in thousandths of an ETH (EthFx(x) converts an input amount);  *)
(*   - every dimensionless value (coefficient of variation, normalized     *)
(*     sub-scores, risk_score before rounding) is held in units of 1/One,  *)
(*     One = 10000 standing for the float 1.0;                             *)
(*   - a value rounded by round(v, 2) is held in hundredths, one rounded   *)
(*     by round(v, 3) in thousandths.                                      *)
(* Divisions and the square root round down to the unit, which stands for  *)
(* the floating-point rounding of the program.                             *)
(*                                                                         *)
(* Python values.  None is the record None; a dict d is Dict(d), d being   *)
(* the TLA+ function from its keys to its values.  datetime.now() fields   *)
(* (timestamp, assessment_time) carry no information the pipeline reads    *)
(* and are left out of the dicts.                                          *)
(***************************************************************************)
EXTENDS Integers, Sequences, FiniteSets, TLC

VARIABLES
    pc,          \* position of the run
    file,        \* content of structured_swaps.json (Missing: no such file)
    swap_data,   \* main's local swap_data
    metrics,     \* main's local metrics
    risk_result, \* main's local risk_result
    file_out     \* content of risk_assessment.json (None: never written)

vars == <<pc, file, swap_data, metrics, risk_result, file_out>>

-----------------------------------------------------------------------------
(* Bounds of the explored inputs.                                          *)

\* longest processed_events list read from the input file
MaxSwaps == 3

\* largest swap_count of a metrics value handed directly to compute_risk_score
MaxCount == 11

\* eth_amount values of the input file, in tenths of an ETH
\* (0, 0.1, 10, 10.5 and 166.7 ETH)
Amounts == {0, 1, 100, 105, 1667}

\* volume_cv values handed directly to compute_risk_score, in 1/One
\* (0, 0.0001, 0.0998, 0.1 and 1000)
CvInputs == {0, 1, 998, 1000, 10000000}

\* volume_per_minute values handed directly to compute_risk_score, in
\* thousandths of an ETH per minute (0, 0.12, 6, 49.77, 50, 100, 1000 ETH/min)
VpmInputs == {0, 120, 6000, 49770, 50000, 100000, 1000000}

-----------------------------------------------------------------------------
(* Python values.                                                          *)

None == [t |-> "None"]

Unbound == [t |-> "unbound"]

Missing == [t |-> "missing"]

EmptyDict == [k \in {} |-> 0]

Dict(d) == [t |-> "dict", d |-> d]

IsDict(v) == v.t = "dict"

\* Python truth value of None or of a dict: `not x`, `if x:`
Truthy(v) == IsDict(v) /\ DOMAIN v.d # {}

Min(a, b) == IF a <= b THEN a ELSE b

\* the float 1.0 in the fixed-point unit of dimensionless values
One == 10000

\* an input eth_amount (tenths) in the unit of the ETH-valued metrics (thousandths)
EthFx(x) == x * 100

RECURSIVE SumSeq(_)
\* sum(eth_amounts)
SumSeq(s) == IF s = << >> THEN 0 ELSE Head(s) + SumSeq(Tail(s))

RECURSIVE SqrtSearch(_, _, _)
SqrtSearch(lo, hi, x) ==
    IF lo >= hi THEN lo
    ELSE LET mid == (lo + hi + 1) \div 2
         IN IF mid * mid <= x THEN SqrtSearch(mid, hi, x)
                              ELSE SqrtSearch(lo, mid - 1, x)

\* floor of the square root of a natural number
ISqrt(x) == SqrtSearch(0, Min(x, 46340), x)

RECURSIVE SqrtDigits(_, _, _)
\* long-hand square root: k more decimal digits of a root r with remainder rem
SqrtDigits(r, rem, k) ==
    IF k = 0 THEN r
    ELSE LET R == rem * 100
             d == CHOOSE e \in 0..9 :
                     /\ (20 * r + e) * e <= R
                     /\ (20 * r + e + 1) * (e + 1) > R
         IN SqrtDigits(10 * r + d, R - (20 * r + d) * d, k - 1)

\* floor(100 * sqrt(x)): the square root of x to two decimal digits
Sqrt100(x) == LET r == ISqrt(x) IN SqrtDigits(r, x - r * r, 2)

\* round(v, ndigits) of a value held in a unit `step` times finer than the
\* rounded one.  A value exactly halfway goes to the even neighbour; the
\* program's float64 is practically never exactly halfway and falls on the
\* side its binary representation lies on.
Round(v, step) ==
    LET q == v \div step
        r == v % step
    IN IF 2 * r < step THEN q
       ELSE IF 2 * r > step THEN q + 1
       ELSE IF q % 2 = 0 THEN q ELSE q + 1

-----------------------------------------------------------------------------
(* RiskScorer.__init__                                                     *)

\* self.risk_weights, in hundredths
risk_weights ==
    [volume_volatility |-> 35, liquidity_depth |-> 30,
     concentration_risk |-> 25, time_decay |-> 10]

-----------------------------------------------------------------------------
(* RiskScorer.calculate_basic_metrics                                      *)

\* the keys of a metrics dict
MetricKeys ==
    {"total_volume_eth", "avg_volume_eth", "volume_std_eth", "volume_cv",
     "swap_count", "time_range_minutes", "volume_per_minute"}

\* eth_amounts = [s['eth_amount'] for s in swaps]
eth_amounts(swaps) == [i \in 1..Len(swaps) |-> swaps[i].eth_amount]

np_mean_sample(xs) == EthFx(SumSeq(xs)) \div (Len(xs) - 1)

\* np.mean(eth_amounts), in thousandths of an ETH
np_mean(xs) == EthFx(SumSeq(xs)) \div Len(xs)

RECURSIVE SumSqDev(_, _, _)
\* sum over the amounts x of (n*x - total)^2
SumSqDev(s, n, total) ==
    IF s = << >> THEN 0
    ELSE (n * Head(s) - total) * (n * Head(s) - total) + SumSqDev(Tail(s), n, total)

\* np.std(eth_amounts): population standard deviation
\*   sqrt(mean(|x - mean|^2)) = sqrt(sum((n*x - total)^2) / n) / n,
\* in thousandths of an ETH
np_std(xs) ==
    LET n == Len(xs)
    IN Sqrt100(SumSqDev(xs, n, SumSeq(xs)) \div n) \div n

\* 'volume_cv': np.std / np.mean if np.mean > 0 else 0, in 1/One
volume_cv(xs) ==
    IF np_mean(xs) > 0 THEN (np_std(xs) * One) \div np_mean(xs) ELSE 0

\* 'time_range_minutes': 5
time_range_minutes == 5

volume_per_minute_times(total, minutes) == total * minutes

\* metrics['total_volume_eth'] / metrics['time_range_minutes']
volume_per_minute(total, minutes) == total \div minutes

too_few_one(swaps) == Len(swaps) < 1

\* len(swaps) < 2
too_few(swaps) == Len(swaps) < 2

calculate_basic_metrics(data) ==
    IF ~Truthy(data) \/ "processed_events" \notin DOMAIN data.d THEN None
    ELSE LET swaps == data.d.processed_events
         IN IF too_few(swaps) THEN None
            ELSE LET xs == eth_amounts(swaps)
                     total == EthFx(SumSeq(xs))
                 IN Dict([total_volume_eth |-> total,
                          avg_volume_eth |-> np_mean(xs),
                          volume_std_eth |-> IF Len(xs) > 1 THEN np_std(xs) ELSE 0,
                          volume_cv |-> volume_cv(xs),
                          swap_count |-> Len(swaps),
                          time_range_minutes |-> time_range_minutes,
                          volume_per_minute |->
                              volume_per_minute(total, time_range_minutes)])

-----------------------------------------------------------------------------
(* RiskScorer.compute_risk_score                                           *)

\* scorer = RiskScorer()
RiskScorer == [risk_weights |-> risk_weights]

Levels == {"LOW", "MEDIUM", "HIGH"}

no_metrics_or_no_swaps(m) == ~Truthy(m) \/ m.d.swap_count = 0

\* if not metrics:
no_metrics(m) == ~Truthy(m)

vol_norm_clamp_ten(m) == Min(m.volume_cv * 10, 10 * One)

\* vol_norm = min(metrics['volume_cv'] * 10, 1.0)
vol_norm(m) == Min(m.volume_cv * 10, One)

\* liquidity_norm = 1 - min(metrics['volume_per_minute'] / 100, 1.0)
\* (One \div 1000 turns thousandths into units of 1/One)
liquidity_norm(m) == One - Min((m.volume_per_minute * (One \div 1000)) \div 100, One)

\* concentration_norm = 1 - min(metrics['swap_count'] / 10, 1.0)
concentration_norm(m) == One - Min((m.swap_count * One) \div 10, One)

\* the dict `normalized`
normalized(m) ==
    [volatility |-> vol_norm(m),
     liquidity |-> liquidity_norm(m),
     concentration |-> concentration_norm(m)]

final_score_all_weights(self, n) ==
    n.volatility * self.risk_weights.volume_volatility
    + n.liquidity * self.risk_weights.liquidity_depth
    + n.concentration * self.risk_weights.concentration_risk
    + One * self.risk_weights.time_decay

\* risk_score = sum of normalized[..] * self.risk_weights[..];
\* final_score = risk_score * 100.  The weights are held in hundredths, so
\* the sum of the products is final_score in units of 1/One.
final_score(self, n) ==
    n.volatility * self.risk_weights.volume_volatility
    + n.liquidity * self.risk_weights.liquidity_depth
    + n.concentration * self.risk_weights.concentration_risk

risk_level_inclusive(score) ==
    IF score <= 30 * One THEN "LOW"
    ELSE IF score <= 70 * One THEN "MEDIUM"
    ELSE "HIGH"

\* if final_score < 30: LOW  elif final_score < 70: MEDIUM  else: HIGH
risk_level(score) ==
    IF score < 30 * One THEN "LOW"
    ELSE IF score < 70 * One THEN "MEDIUM"
    ELSE "HIGH"

color(level) ==
    IF level = "LOW" THEN "green"
    ELSE IF level = "MEDIUM" THEN "yellow"
    ELSE "red"

compute_risk_score(self, m) ==
    IF no_metrics(m) THEN Dict([error |-> "No metrics available"])
    ELSE LET n == normalized(m.d)
             fs == final_score(self, n)
             w == self.risk_weights
         IN Dict([risk_score |-> Round(fs, 100),
                  risk_level |-> risk_level(fs),
                  color |-> color(risk_level(fs)),
                  components |->
                      [volatility_contrib |->
                           Round(n.volatility * w.volume_volatility, 100),
                       liquidity_contrib |->
                           Round(n.liquidity * w.liquidity_depth, 100),
                       concentration_contrib |->
                           Round(n.concentration * w.concentration_risk, 100)],
                  normalized_metrics |->
                      [k \in DOMAIN n |-> Round(n[k], 10)]])

-----------------------------------------------------------------------------
(* RiskScorer.save_risk_assessment                                         *)

\* the dict `assessment`, written to risk_assessment.json and returned
save_risk_assessment(m, result) ==
    Dict([metadata |->
              [model_version |-> "v0.1-basic",
               pipeline_phase |-> "3-ML-Risk-Scoring"],
          metrics |-> m,
          risk_assessment |-> result,
          interpretation |->
              [low_risk |-> "< 30: Normal market activity",
               medium_risk |-> "30-70: Elevated monitoring recommended",
               high_risk |-> "> 70: Potential risk event"]])

-----------------------------------------------------------------------------
(* main                                                                    *)

\* lists of swap records of at most MaxSwaps elements
SwapLists ==
    UNION {[1..n -> {[eth_amount |-> a] : a \in Amounts}] : n \in 0..MaxSwaps}

\* contents of structured_swaps.json: no file, an empty mapping, a mapping
\* without the 'processed_events' key, a mapping with it
Files ==
    {Missing, Dict(EmptyDict), Dict([block_range |-> "sample"])}
    \cup {Dict([processed_events |-> s]) : s \in SwapLists}

Init ==
    /\ pc = "load"
    /\ file \in Files
    /\ swap_data = Unbound
    /\ metrics = Unbound
    /\ risk_result = Unbound
    /\ file_out = None

\* open('structured_swaps.json') raises FileNotFoundError: main returns
LoadFileNotFound ==
    /\ pc = "load"
    /\ file = Missing
    /\ pc' = "done"
    /\ UNCHANGED <<file, swap_data, metrics, risk_result, file_out>>

\* swap_data = json.load(f)
LoadSwapData ==
    /\ pc = "load"
    /\ file # Missing
    /\ swap_data' = file
    /\ pc' = "metrics"
    /\ UNCHANGED <<file, metrics, risk_result, file_out>>

CalculateMetricsUnguarded ==
    /\ pc = "metrics"
    /\ metrics' = calculate_basic_metrics(swap_data)
    /\ pc' = "score"
    /\ UNCHANGED <<file, swap_data, risk_result, file_out>>

\* metrics = scorer.calculate_basic_metrics(swap_data); if metrics:
CalculateMetrics ==
    /\ pc = "metrics"
    /\ metrics' = calculate_basic_metrics(swap_data)
    /\ pc' = IF Truthy(metrics') THEN "score" ELSE "done"
    /\ UNCHANGED <<file, swap_data, risk_result, file_out>>

\* risk_result = scorer.compute_risk_score(metrics)
ComputeScore ==
    /\ pc = "score"
    /\ risk_result' = compute_risk_score(RiskScorer, metrics)
    /\ pc' = "save"
    /\ UNCHANGED <<file, swap_data, metrics, file_out>>

\* assessment = scorer.save_risk_assessment(metrics, risk_result)
SaveAssessment ==
    /\ pc = "save"
    /\ file_out' = save_risk_assessment(metrics, risk_result)
    /\ pc' = "done"
    /\ UNCHANGED <<file, swap_data, metrics, risk_result>>

Next ==
    \/ LoadFileNotFound
    \/ LoadSwapData
    \/ CalculateMetrics
    \/ ComputeScore
    \/ SaveAssessment

Spec == Init /\ [][Next]_vars

-----------------------------------------------------------------------------
(* compute_risk_score called on its own, on any metrics value              *)

\* metrics values handed to compute_risk_score: None, the empty dict, and
\* dicts carrying the keys compute_risk_score reads
MetricsInputs ==
    {None, Dict(EmptyDict)}
    \cup {Dict([volume_cv |-> cv, volume_per_minute |-> v, swap_count |-> c]) :
              cv \in CvInputs, v \in VpmInputs, c \in 0..MaxCount}

ScoreInit ==
    /\ pc = "call"
    /\ metrics \in MetricsInputs
    /\ file = Missing
    /\ swap_data = Unbound
    /\ risk_result = Unbound
    /\ file_out = None

\* scorer.compute_risk_score(metrics)
CallComputeRiskScore ==
    /\ pc = "call"
    /\ risk_result' = compute_risk_score(RiskScorer, metrics)
    /\ pc' = "returned"
    /\ UNCHANGED <<file, swap_data, metrics, file_out>>

ScoreNext == CallComputeRiskScore

ScoreSpec == ScoreInit /\ [][ScoreNext]_vars

-----------------------------------------------------------------------------
(* Properties                                                              *)

\* the swap records of a loaded mapping (none when it has no such key)
Records(data) ==
    IF IsDict(data) /\ "processed_events" \in DOMAIN data.d
    THEN data.d.processed_events
    ELSE << >>

\* calculate_basic_metrics has returned in this run
MetricsReturned == pc \in {"score", "save", "done"} /\ IsDict(swap_data)

\* compute_risk_score has returned an assessment in this run
Scored == IsDict(risk_result) /\ "risk_score" \in DOMAIN risk_result.d

\* the unrounded score of the metrics at hand, in 1/One
FinalScore == final_score(RiskScorer, normalized(metrics.d))

\* C1: an assessment is written only after metrics were computed from at
\* least 2 swap records: a run whose input file is missing, lacks the
\* 'processed_events' key or holds fewer than 2 records never reaches
\* save_risk_assessment and writes nothing, and a written assessment never
\* holds the error result in place of a risk assessment.
C1_AssessmentOnlyFromSufficientData ==
    /\ (pc = "save" \/ IsDict(file_out)) =>
           /\ Len(Records(file)) >= 2
           /\ IsDict(metrics) /\ DOMAIN metrics.d = MetricKeys
           /\ IsDict(risk_result)
           /\ "error" \notin DOMAIN risk_result.d
    /\ IsDict(file_out) =>
           /\ file_out.d.metrics = metrics
           /\ file_out.d.risk_assessment = risk_result
           /\ "error" \notin DOMAIN file_out.d.risk_assessment.d
           /\ file_out.d.risk_assessment.d.risk_level \in Levels
    /\ (pc = "done" /\ Len(Records(file)) < 2) => file_out = None

\* a run over a single swap record has ended without writing an assessment
C1_Witness ==
    /\ pc = "done"
    /\ Len(Records(file)) = 1
    /\ metrics = None
    /\ file_out = None

\* C2: calculate_basic_metrics returns None when the mapping is empty, lacks
\* 'processed_events' or holds fewer than 2 records, and a metrics dict with
\* all seven keys when it holds 2 or more; never a partial metrics dict.
C2_MetricsNoneOrComplete ==
    MetricsReturned =>
        IF Truthy(swap_data)
           /\ "processed_events" \in DOMAIN swap_data.d
           /\ Len(swap_data.d.processed_events) >= 2
        THEN IsDict(metrics) /\ DOMAIN metrics.d = MetricKeys
        ELSE metrics = None

\* calculate_basic_metrics has returned None for a single swap record
C2_Witness ==
    /\ MetricsReturned
    /\ Len(Records(swap_data)) = 1
    /\ metrics = None

\* C3: compute_risk_score returns the dict {error: "No metrics available"}
\* for the empty/no-metrics value and only for it; for every non-empty
\* metrics value it returns an assessment with a score and a level in
\* {LOW, MEDIUM, HIGH}.
C3_ErrorIffNoMetrics ==
    pc = "returned" =>
        /\ IsDict(risk_result)
        /\ IF metrics \in {None, Dict(EmptyDict)}
           THEN risk_result = Dict([error |-> "No metrics available"])
           ELSE /\ "error" \notin DOMAIN risk_result.d
                /\ {"risk_score", "risk_level"} \subseteq DOMAIN risk_result.d
                /\ risk_result.d.risk_score \in 0..(100 * 100)
                /\ risk_result.d.risk_level \in Levels

\* compute_risk_score has returned the error value for None
C3_Witness ==
    /\ pc = "returned"
    /\ metrics = None
    /\ risk_result = Dict([error |-> "No metrics available"])

RECURSIVE SumWeights(_, _)
\* sum of the weights w[k] over the keys ks
SumWeights(w, ks) ==
    IF ks = {} THEN 0
    ELSE LET k == CHOOSE x \in ks : TRUE IN w[k] + SumWeights(w, ks \ {k})

\* C4: the score is 100 x the sum of normalized_i x weight_i over the
\* scorer's weight set, whose weights sum to 1.0, every normalized_i lying
\* in [0,1], so that the score spans [0,100]: when every normalized
\* sub-score is 1 the score is 100 x the sum of the weight set, 100.
C4_ScoreOverFullWeightSet ==
    (pc = "returned" /\ Scored) =>
        LET n == normalized(metrics.d)
        IN /\ SumWeights(risk_weights, DOMAIN risk_weights) = 100
           /\ \A k \in DOMAIN n : n[k] \in 0..One
           /\ (\A k \in DOMAIN n : n[k] = One) =>
                  /\ FinalScore = One * SumWeights(risk_weights, DOMAIN risk_weights)
                  /\ risk_result.d.risk_score = 100 * 100

\* C5: the score is at most 90, is 35 x volatility + 30 x liquidity +
\* 25 x concentration, and does not depend on the 'time_decay' weight.
C5_MaxScoreNinety ==
    (pc = "returned" /\ Scored) =>
        LET n == normalized(metrics.d)
        IN /\ FinalScore <= 90 * One
           /\ risk_result.d.risk_score <= 90 * 100
           /\ FinalScore = 35 * n.volatility + 30 * n.liquidity + 25 * n.concentration
           /\ risk_result.d.risk_score = Round(FinalScore, 100)
           /\ \A x \in 0..100 :
                  compute_risk_score(
                      [risk_weights |-> [risk_weights EXCEPT !.time_decay = x]],
                      metrics) = risk_result

\* compute_risk_score has returned the score 90
C5_Witness ==
    /\ pc = "returned"
    /\ Scored
    /\ risk_result.d.risk_score = 90 * 100
    /\ FinalScore = 90 * One

\* C6: each of the three normalized sub-scores lies in [0,1], in the dict
\* `normalized` and as returned (rounded to 3 decimals), however large the
\* coefficient of variation, the volume per minute or the swap count.
C6_NormalizedInUnitInterval ==
    (pc = "returned" /\ Scored) =>
        /\ DOMAIN risk_result.d.normalized_metrics
               = {"volatility", "liquidity", "concentration"}
        /\ \A k \in DOMAIN risk_result.d.normalized_metrics :
               /\ normalized(metrics.d)[k] \in 0..One
               /\ risk_result.d.normalized_metrics[k] \in 0..1000

\* compute_risk_score has returned for a coefficient of variation of 1000
C6_Witness ==
    /\ pc = "returned"
    /\ Scored
    /\ metrics.d.volume_cv = 1000 * One
    /\ risk_result.d.normalized_metrics.volatility = 1000

C7_Reached29999 == pc = "returned" /\ Scored /\ FinalScore = 299990

C7_Reached69999 == pc = "returned" /\ Scored /\ FinalScore = 699990

C7_Reached70 == pc = "returned" /\ Scored /\ FinalScore = 700000

\* the input amounts all equal one positive amount
AllEqualPositive(swaps) ==
    /\ Len(swaps) >= 2
    /\ swaps[1].eth_amount > 0
    /\ \A i \in 1..Len(swaps) : swaps[i].eth_amount = swaps[1].eth_amount

\* C8: over n >= 2 swaps of one positive amount a, volatility = 0,
\* liquidity = 1 - min((n*a/5)/100, 1), concentration = 1 - min(n/10, 1)
\* and score = 100 x (0.30 x liquidity + 0.25 x concentration); three swaps
\* of 10 ETH give mean 10, stddev 0, volume per minute 6, score 45.7, MEDIUM.
C8_EqualAmounts ==
    (Scored /\ AllEqualPositive(Records(swap_data))) =>
        LET swaps == Records(swap_data)
            n == Len(swaps)
            a == swaps[1].eth_amount
            liq == One - Min((n * a * One) \div (10 * 5 * 100), One)
            conc == One - Min((n * One) \div 10, One)
            nm == normalized(metrics.d)
        IN /\ nm.volatility = 0
           /\ nm.liquidity = liq
           /\ nm.concentration = conc
           /\ FinalScore = 30 * liq + 25 * conc
           /\ risk_result.d.risk_score = Round(30 * liq + 25 * conc, 100)
           /\ (n = 3 /\ a = 100) =>
                  /\ metrics.d.avg_volume_eth = 10 * 1000
                  /\ metrics.d.volume_std_eth = 0
                  /\ metrics.d.volume_per_minute = 6 * 1000
                  /\ nm.liquidity = 9400
                  /\ nm.concentration = 7000
                  /\ risk_result.d.risk_score = 4570
                  /\ risk_result.d.risk_level = "MEDIUM"

\* the run over three swaps of 10 ETH has written its assessment
C8_Witness ==
    /\ pc = "done"
    /\ IsDict(file_out)
    /\ Records(swap_data) = <<[eth_amount |-> 100], [eth_amount |-> 100],
                              [eth_amount |-> 100]>>
    /\ file_out.d.risk_assessment.d.risk_score = 4570

\* C9: for 2 or more non-negative amounts, total = sum of the amounts,
\* mean = total / count, count = number of records, stddev >= 0,
\* coefficient of variation = stddev / mean when mean > 0 and 0 when
\* mean = 0, volume per minute = total / 5 (quotients to the fixed-point unit).
C9_BasicMetrics ==
    (MetricsReturned /\ IsDict(metrics)) =>
        LET m == metrics.d
            swaps == Records(swap_data)
        IN /\ Len(swaps) >= 2
           /\ m.swap_count = Len(swaps)
           /\ m.total_volume_eth = EthFx(SumSeq(eth_amounts(swaps)))
           /\ m.avg_volume_eth * m.swap_count <= m.total_volume_eth
           /\ m.total_volume_eth < (m.avg_volume_eth + 1) * m.swap_count
           /\ m.volume_std_eth >= 0
           /\ m.avg_volume_eth > 0 =>
                  /\ m.volume_cv * m.avg_volume_eth <= m.volume_std_eth * One
                  /\ m.volume_std_eth * One < (m.volume_cv + 1) * m.avg_volume_eth
           /\ m.avg_volume_eth = 0 => m.volume_cv = 0
           /\ m.time_range_minutes = 5
           /\ m.volume_per_minute * 5 = m.total_volume_eth

\* metrics were computed over amounts of mean 0: no division by zero
C9_Witness ==
    /\ MetricsReturned
    /\ IsDict(metrics)
    /\ metrics.d.avg_volume_eth = 0
    /\ metrics.d.volume_cv = 0

\* reachable as well: metrics computed over unequal amounts whose
\* coefficient of variation lies below the saturation point 0.1
C9_ReachedSpread ==
    /\ MetricsReturned
    /\ IsDict(metrics)
    /\ metrics.d.avg_volume_eth > 0
    /\ metrics.d.volume_cv > 0
    /\ metrics.d.volume_cv < 1000

\* C10: the reported risk_score (rounded to 2 decimals) and the reported
\* risk_level agree with the thresholds: LOW iff risk_score < 30, MEDIUM iff
\* 30 <= risk_score < 70, HIGH iff risk_score >= 70.
C10_ReportedScoreMatchesLevel ==
    Scored =>
        LET level == risk_result.d.risk_level
            score == risk_result.d.risk_score
        IN /\ level = "LOW" <=> score < 30 * 100
           /\ level = "MEDIUM" <=> (30 * 100 <= score /\ score < 70 * 100)
           /\ level = "HIGH" <=> score >= 70 * 100

=============================================================================
